---- MODULE Spec2Model ----
(***************************************************************************)
(* Model of the amssa crate: the phoneme packer (src/src/phonemes.rs), the  *)
(* text normalizer (phonehash_elements) and the sorted-list search          *)
(* (src/src/search.rs).                                                     *)
(*                                                                          *)
(* Unsigned integers of the packer are bit vectors: a function 1..bits ->   *)
(* {0,1} whose index 1 is the most significant bit, so that the widths 64   *)
(* and 128 keep their exact width and the derived integer order is the      *)
(* lexicographic order of the vector.                                       *)
(***************************************************************************)
EXTENDS Integers, Sequences, FiniteSets, TLC

VARIABLES
  \* Phonehash::from_iter (phonemes.rs:108-122)
  bits, iter, pos, repr, remaining_max, ppc,
  \* a.starts_with(b) on two packed fingerprints (phonemes.rs:97-99)
  sw_self, sw_other, sw_result, sw_pc,
  \* SearchableList::phonehash_search (search.rs:25-71); probes is the
  \* history of the indices handed to item_at_unchecked
  list, query, max_items, size, base, max_item_index, result_with_dist,
  result, probes, pc,
  \* phonehash_elements (phonemes.rs:170-250): ascii_alphas is the expanded
  \* byte stream, cursor the next byte next() returns; each emitted class
  \* remembers the stream index it was produced from
  input, ascii_alphas, cursor, check_silent_first_letter, elements, npc

packVars == <<bits, iter, pos, repr, remaining_max, ppc>>

swVars == <<sw_self, sw_other, sw_result, sw_pc>>

searchVars == <<list, query, max_items, size, base, max_item_index,
                result_with_dist, result, probes, pc>>

normVars == <<input, ascii_alphas, cursor, check_silent_first_letter, elements, npc>>

vars == <<packVars, swVars, searchVars, normVars>>

(***************************************************************************)
(* Bounds of the model.                                                     *)
(***************************************************************************)
\* longest exhaustively enumerated phoneme stream
MaxStreamLen == 3
\* longest repeated pattern of the long (capacity-filling) streams
MaxPatternLen == 2
\* longest exhaustively enumerated stream of the starts_with pairs
MaxSwLen == 2
\* longest searched collection
MaxLen == 3
\* largest ordinary max_items (usize::MAX is drawn besides)
MaxItems == 2
\* width of the machine word usize, scaled down
UsizeBits == 4
\* longest normalized input string
MaxInputLen == 4

(***************************************************************************)
(* Phoneme classes (phonemes.rs:139-149).                                   *)
(***************************************************************************)
PhonehashElem == {"Space", "A", "B", "F", "S", "G", "M", "W"}

\* `elem as u8`: the discriminants of the enum
ElemCode(e) ==
  CASE e = "Space" -> 0
    [] e = "A" -> 1
    [] e = "B" -> 2
    [] e = "F" -> 3
    [] e = "S" -> 4
    [] e = "G" -> 5
    [] e = "M" -> 6
    [] e = "W" -> 7

(***************************************************************************)
(* Unsigned integers as bit vectors.                                        *)
(***************************************************************************)
\* the integer types the macro is instantiated for (u8 .. u128)
Widths == {8, 16, 32, 64, 128}

\* T::default(): zero
Default(w) == [i \in 1..w |-> 0]

\* !0
AllOnes(w) == [i \in 1..w |-> 1]

\* v << n, for n < width (bits shifted out are lost)
Shl(v, n) == [i \in 1..Len(v) |-> IF i + n <= Len(v) THEN v[i + n] ELSE 0]

\* v.overflowing_shr(n).0, for n < width
Shr(v, n) == [i \in 1..Len(v) |-> IF i - n >= 1 THEN v[i - n] ELSE 0]

BitOr(a, b) == [i \in 1..Len(a) |-> IF a[i] = 1 \/ b[i] = 1 THEN 1 ELSE 0]

BitAnd(a, b) == [i \in 1..Len(a) |-> IF a[i] = 1 /\ b[i] = 1 THEN 1 ELSE 0]

\* a small number n < 8 as a value of the integer type of width w (`n as Self`)
AsSelf(w, n) ==
  [i \in 1..w |-> IF i = w THEN n % 2
                  ELSE IF i = w - 1 THEN (n \div 2) % 2
                  ELSE IF i = w - 2 THEN (n \div 4) % 2
                  ELSE 0]

\* the value of v & 7
Low3(v) == 4 * v[Len(v) - 2] + 2 * v[Len(v) - 1] + v[Len(v)]

IsZero(v) == \A i \in 1..Len(v) : v[i] = 0

\* the derived Ord of the unsigned integer: a < b
Lt(a, b) ==
  \E i \in 1..Len(a) : /\ a[i] < b[i]
                       /\ \A j \in 1..(i - 1) : a[j] = b[j]

Le(a, b) == a = b \/ Lt(a, b)

(***************************************************************************)
(* PhonehashRepr for the unsigned integers (phonemes.rs:17-78).            *)
(***************************************************************************)
stray_bits(w) == w % 3

max_phonemes(w) == w \div 3

\* (*self & FINAL_MASK) != 0, FINAL_MASK = !0 << (BITS - 3)
is_finalized(v) == ~IsZero(BitAnd(v, Shl(AllOnes(Len(v)), Len(v) - 3)))

\* finalize that forgets the stray bits
finalize_no_stray(v, remaining) == Shl(v, 3 * remaining)

\* *self <<= 3 * remaining; *self <<= stray_bits()
finalize(v, remaining) == Shl(Shl(v, 3 * remaining), stray_bits(Len(v)))

\* the append guard without the consecutive-duplicate test
append_rejects_no_dedup(v, elem) == ElemCode(elem) <= 1 \/ is_finalized(v)

\* the guard of append: the symbol is rejected
append_rejects(v, elem) ==
  \/ ElemCode(elem) <= 1
  \/ Low3(v) = ElemCode(elem)
  \/ is_finalized(v)

\* append: the new accumulator and the returned bool
append(v, elem) ==
  IF append_rejects(v, elem)
  THEN [repr |-> v, ok |-> FALSE]
  ELSE [repr |-> BitOr(Shl(v, 3), AsSelf(Len(v), ElemCode(elem))), ok |-> TRUE]

\* phoneme_at(index): None is "None"
phoneme_at(v, index) ==
  IF index >= max_phonemes(Len(v)) THEN "None"
  ELSE LET shifted == Shr(v, stray_bits(Len(v)) + 3 * (max_phonemes(Len(v)) - index - 1))
       IN CASE Low3(shifted) = 0 -> "Space"
            [] Low3(shifted) = 1 -> "A"
            [] Low3(shifted) = 2 -> "B"
            [] Low3(shifted) = 3 -> "F"
            [] Low3(shifted) = 4 -> "S"
            [] Low3(shifted) = 5 -> "G"
            [] Low3(shifted) = 6 -> "M"
            [] Low3(shifted) = 7 -> "W"

RECURSIVE tail_mask(_, _)
\* the while loop of starts_with: shift the mask until it misses other
tail_mask(other, max_phoneme_bits) ==
  IF ~IsZero(BitAnd(other, max_phoneme_bits))
  THEN tail_mask(other, Shr(max_phoneme_bits, 3))
  ELSE max_phoneme_bits

\* starts_with without the upper end of the range
starts_with_lower_only(self, other) == Le(other, self)

\* self.starts_with(other)
starts_with(self, other) ==
  LET max_phoneme_bits == tail_mask(other, AllOnes(Len(other)))
  IN Le(other, self) /\ Le(self, BitOr(other, max_phoneme_bits))

RECURSIVE from_iter_loop(_, _, _)
\* the for loop of from_iter over the rest of the stream, then finalize
from_iter_loop(v, remaining, rest) ==
  IF rest = <<>> THEN finalize(v, remaining)
  ELSE LET r == append(v, Head(rest))
       IN IF r.ok
          THEN IF remaining - 1 = 0 THEN finalize(r.repr, 0)
               ELSE from_iter_loop(r.repr, remaining - 1, Tail(rest))
          ELSE from_iter_loop(v, remaining, Tail(rest))

\* Phonehash::<T>::from_iter(stream) for the integer of width w
from_iter(w, stream) == from_iter_loop(Default(w), max_phonemes(w), stream)

(***************************************************************************)
(* Input streams of the packer.                                             *)
(***************************************************************************)
RECURSIVE SeqsUpTo(_, _)
\* all sequences over S of length at most n
SeqsUpTo(S, n) ==
  IF n = 0 THEN {<<>>}
  ELSE LET shorter == SeqsUpTo(S, n - 1)
       IN shorter \cup {Append(s, x) : s \in {t \in shorter : Len(t) = n - 1}, x \in S}

\* the pattern p repeated up to length n
RepeatTo(p, n) == [i \in 1..n |-> p[((i - 1) % Len(p)) + 1]]

Patterns == SeqsUpTo(PhonehashElem, MaxPatternLen) \ {<<>>}

\* lengths around the capacity of width w
LongLens(w) == {max_phonemes(w) - 1, max_phonemes(w), max_phonemes(w) + 1,
                2 * max_phonemes(w) + 1}

Streams(w) ==
  SeqsUpTo(PhonehashElem, MaxStreamLen)
    \cup {RepeatTo(p, n) : p \in Patterns, n \in LongLens(w)}

(***************************************************************************)
(* Phonehash::from_iter, one step per loop iteration.                       *)
(***************************************************************************)
PackInit ==
  /\ bits \in Widths
  /\ iter \in Streams(bits)
  /\ pos = 1
  /\ repr = Default(bits)
  /\ remaining_max = max_phonemes(bits)
  /\ ppc = "loop"

\* one iteration of `for item in iter`
PackStep ==
  /\ ppc = "loop"
  /\ pos <= Len(iter)
  /\ LET r == append(repr, iter[pos])
     IN /\ repr' = r.repr
        /\ pos' = pos + 1
        /\ remaining_max' = IF r.ok THEN remaining_max - 1 ELSE remaining_max
        /\ ppc' = IF r.ok /\ remaining_max - 1 = 0 THEN "finalize" ELSE "loop"
  /\ UNCHANGED <<bits, iter>>
  /\ UNCHANGED <<swVars, searchVars, normVars>>

\* the iterator is exhausted
PackExhausted ==
  /\ ppc = "loop"
  /\ pos > Len(iter)
  /\ ppc' = "finalize"
  /\ UNCHANGED <<bits, iter, pos, repr, remaining_max>>
  /\ UNCHANGED <<swVars, searchVars, normVars>>

\* repr.finalize(remaining_max); Self(repr)
PackFinalize ==
  /\ ppc = "finalize"
  /\ repr' = finalize(repr, remaining_max)
  /\ ppc' = "done"
  /\ UNCHANGED <<bits, iter, pos, remaining_max>>
  /\ UNCHANGED <<swVars, searchVars, normVars>>

PackNext == PackStep \/ PackExhausted \/ PackFinalize

(***************************************************************************)
(* Reference reading of a stream and of a packed value.                     *)
(***************************************************************************)
IsStorable(e) == e \notin {"Space", "A"}

\* the stream with every Space and every vowel class A deleted
Storable(stream) == SelectSeq(stream, IsStorable)

RECURSIVE Collapse(_)
\* consecutive equal classes collapsed to one
Collapse(s) ==
  IF Len(s) <= 1 THEN s
  ELSE IF s[1] = s[2] THEN Collapse(Tail(s))
       ELSE <<s[1]>> \o Collapse(Tail(s))

Take(s, n) == SubSeq(s, 1, IF Len(s) < n THEN Len(s) ELSE n)

\* the value whose slot k (from the most significant) holds class s[k]
Encode(w, s) ==
  [i \in 1..w |->
     LET slot == ((i - 1) \div 3) + 1
         bit == (i - 1) % 3
     IN IF slot <= Len(s)
        THEN (ElemCode(s[slot]) \div (IF bit = 0 THEN 4 ELSE IF bit = 1 THEN 2 ELSE 1)) % 2
        ELSE 0]

\* the slots of a packed value, decoded by phoneme_at
Slots(v) == [k \in 1..max_phonemes(Len(v)) |-> phoneme_at(v, k - 1)]

\* the stored phoneme sequence: the slots before the first empty one
StoredSeq(v) ==
  LET s == Slots(v)
      empty == {k \in 1..Len(s) : s[k] = "Space"}
      n == IF empty = {} THEN Len(s)
           ELSE (CHOOSE k \in empty : \A j \in empty : k <= j) - 1
  IN SubSeq(s, 1, n)

IsPrefix(p, s) == Len(p) <= Len(s) /\ SubSeq(s, 1, Len(p)) = p

(***************************************************************************)
(* Specifications: each one runs one component and leaves the others idle.  *)
(***************************************************************************)
PackIdle ==
  /\ bits = 8
  /\ iter = <<>>
  /\ pos = 1
  /\ repr = <<>>
  /\ remaining_max = 0
  /\ ppc = "idle"

SwIdle ==
  /\ sw_self = <<>>
  /\ sw_other = <<>>
  /\ sw_result = FALSE
  /\ sw_pc = "idle"

(***************************************************************************)
(* starts_with on two fingerprints produced by packing.                     *)
(***************************************************************************)
\* classes of the starts_with pairs: the vowel and the codes 010, 100, 111
SwElems == {"A", "B", "S", "W"}

SwPatterns == {p \in SeqsUpTo(SwElems, 2) : Len(p) = 2}

SwStreams(w) ==
  SeqsUpTo(SwElems, MaxSwLen)
    \cup {RepeatTo(p, n) : p \in SwPatterns, n \in {max_phonemes(w), max_phonemes(w) + 1}}

\* the fingerprints of width w that packing the streams produces
SwPacked(w) == {from_iter(w, s) : s \in SwStreams(w)}

SwInit ==
  /\ \E w \in Widths :
       LET packed == SwPacked(w)
       IN /\ sw_self \in packed
          /\ sw_other \in packed
  /\ sw_result = FALSE
  /\ sw_pc = "call"

\* Phonehash::starts_with(&self, other)
SwCall ==
  /\ sw_pc = "call"
  /\ sw_result' = starts_with(sw_self, sw_other)
  /\ sw_pc' = "done"
  /\ UNCHANGED <<sw_self, sw_other>>
  /\ UNCHANGED <<packVars, searchVars, normVars>>

SwNext == SwCall

(***************************************************************************)
(* Search (search.rs).                                                      *)
(***************************************************************************)
\* type Repr of the searched items (u8, as in Phonehash<u8>)
SearchBits == 8

USIZE_MAX == 2 ^ UsizeBits - 1

Min(a, b) == IF a < b THEN a ELSE b

RECURSIVE dl_cell(_, _, _, _)
\* the Damerau-Levenshtein distance of the prefixes a[1..i] and b[1..j]
dl_cell(a, b, i, j) ==
  IF i = 0 THEN j
  ELSE IF j = 0 THEN i
  ELSE LET del == dl_cell(a, b, i - 1, j) + 1
           ins == dl_cell(a, b, i, j - 1) + 1
           sub == dl_cell(a, b, i - 1, j - 1) + (IF a[i] = b[j] THEN 0 ELSE 1)
           trans == {dl_cell(a, b, k - 1, l - 1) + (i - k - 1) + 1 + (j - l - 1) :
                       <<k, l>> \in {kl \in (1..(i - 1)) \X (1..(j - 1)) :
                                       a[kl[1]] = b[j] /\ a[i] = b[kl[2]]}}
           all == {del, ins, sub} \cup trans
       IN CHOOSE d \in all : \A e \in all : d <= e

\* strsim::damerau_levenshtein(a, b)
damerau_levenshtein(a, b) == dl_cell(a, b, Len(a), Len(b))

\* the fingerprints and texts of the searched items
SearchPhonemes == {from_iter(SearchBits, s) : s \in {<<"M">>, <<"M", "B">>, <<"W">>}}

QueryPhonemes == SearchPhonemes \cup {from_iter(SearchBits, <<>>)}

\* texts at distance 0, 1 (one transposition) and 2 from the query text
SearchTexts == {<<"b", "c", "a">>, <<"b", "a", "c">>, <<"a", "b">>}

QueryText == <<"b", "c", "a">>

Items == [str : SearchTexts, phoneme : SearchPhonemes]

\* self.item_at_unchecked(index): a read past the end is undefined behaviour
\* and may yield anything
item_at_unchecked(l, index) == IF index < Len(l) THEN {l[index + 1]} ELSE Items

\* the fuzzy limit without the cap at the collection length
fuzzy_limit_unclamped(sum, sz) == sum

\* (max_items + base).min(size), the sum already reduced to the word
fuzzy_limit(sum, sz) == Min(sum, sz)

\* the exact-match loop stopped at the fuzzy limit
exact_continues_capped(b, sz, limit) == b < limit

\* guard of the exact-match loop
exact_continues(b, sz, limit) == b < sz

\* the fuzzy-prefix loop run to the end of the collection
fuzzy_continues_unbounded(b, sz, limit) == b < sz

\* guard of the fuzzy-prefix loop
fuzzy_continues(b, sz, limit) == b < limit

\* the fuzzy test with its negation lost
fuzzy_matches_inverted(item, q) == ~starts_with(item.phoneme, q.phoneme)

\* the test of the fuzzy-prefix loop
fuzzy_matches(item, q) == starts_with(item.phoneme, q.phoneme)

RECURSIVE insert_by_dist(_, _)
\* x placed after every entry whose distance is not greater
insert_by_dist(sorted, x) ==
  IF sorted = <<>> THEN <<x>>
  ELSE IF x.dist < Head(sorted).dist THEN <<x>> \o sorted
       ELSE <<Head(sorted)>> \o insert_by_dist(Tail(sorted), x)

RECURSIVE sort_from(_, _)
sort_from(sorted, rest) ==
  IF rest = <<>> THEN sorted
  ELSE sort_from(insert_by_dist(sorted, Head(rest)), Tail(rest))

\* no sort at all
sort_by_dist_none(s) == s

\* result_with_dist.sort_by(|a, b| a.0.cmp(&b.0)): a stable sort
sort_by_dist(s) == sort_from(<<>>, s)

\* .into_iter().take(max_items).map(|v| v.1).collect()
take_items(s, n) ==
  [k \in 1..Min(Len(s), n) |-> [item |-> s[k].item, idx |-> s[k].idx]]

scored(item, q, index) ==
  [dist |-> damerau_levenshtein(item.str, q.str), item |-> item, idx |-> index]

SearchIdle ==
  /\ list = <<>>
  /\ query = <<>>
  /\ max_items = 0
  /\ size = 0
  /\ base = 0
  /\ max_item_index = 0
  /\ result_with_dist = <<>>
  /\ result = <<>>
  /\ probes = <<>>
  /\ pc = "idle"

SearchInit ==
  /\ list \in SeqsUpTo(Items, MaxLen)
  /\ query \in [str : {QueryText}, phoneme : QueryPhonemes]
  /\ max_items \in (0..MaxItems) \cup {USIZE_MAX}
  /\ size = 0
  /\ base = 0
  /\ max_item_index = 0
  /\ result_with_dist = <<>>
  /\ result = <<>>
  /\ probes = <<>>
  /\ pc = "call"

\* lines 27-31: the early return on an empty collection
SearchStart ==
  /\ pc = "call"
  /\ size' = Len(list)
  /\ IF Len(list) = 0
     THEN /\ result' = <<>>
          /\ pc' = "done"
     ELSE /\ result' = result
          /\ pc' = "bsearch"
  /\ UNCHANGED <<list, query, max_items, base, max_item_index, result_with_dist, probes>>
  /\ UNCHANGED <<packVars, swVars, normVars>>

\* lines 33-45: one probe of the left-biased binary search
BinarySearchProbe ==
  /\ pc = "bsearch"
  /\ size > 0
  /\ LET half == size \div 2
         mid == base + half
     IN /\ probes' = Append(probes, mid)
        /\ \E it \in item_at_unchecked(list, mid) :
             IF Lt(it.phoneme, query.phoneme)
             THEN /\ base' = mid + 1
                  /\ size' = size - (half + 1)
             ELSE /\ base' = base
                  /\ size' = half
  /\ UNCHANGED <<list, query, max_items, max_item_index, result_with_dist, result, pc>>
  /\ UNCHANGED <<packVars, swVars, normVars>>

\* lines 47-49: the sum max_items + base wraps in a build without overflow
\* checks and panics in a build with them
BinarySearchEnd ==
  /\ pc = "bsearch"
  /\ size = 0
  /\ result_with_dist' = <<>>
  /\ size' = Len(list)
  /\ \/ /\ max_item_index' = fuzzy_limit((max_items + base) % (USIZE_MAX + 1), Len(list))
        /\ pc' = "exact"
     \/ /\ max_items + base > USIZE_MAX
        /\ max_item_index' = max_item_index
        /\ pc' = "panic"
  /\ UNCHANGED <<list, query, max_items, base, result, probes>>
  /\ UNCHANGED <<packVars, swVars, normVars>>

\* lines 51-59: one iteration of the exact-match loop
ExactProbe ==
  /\ pc = "exact"
  /\ exact_continues(base, size, max_item_index)
  /\ probes' = Append(probes, base)
  /\ \E base_value \in item_at_unchecked(list, base) :
       IF base_value.phoneme # query.phoneme
       THEN /\ pc' = "fuzzy"
            /\ UNCHANGED <<base, result_with_dist>>
       ELSE /\ result_with_dist' = Append(result_with_dist, scored(base_value, query, base))
            /\ base' = base + 1
            /\ pc' = pc
  /\ UNCHANGED <<list, query, max_items, size, max_item_index, result>>
  /\ UNCHANGED <<packVars, swVars, normVars>>

ExactEnd ==
  /\ pc = "exact"
  /\ ~exact_continues(base, size, max_item_index)
  /\ pc' = "fuzzy"
  /\ UNCHANGED <<list, query, max_items, size, base, max_item_index,
                 result_with_dist, result, probes>>
  /\ UNCHANGED <<packVars, swVars, normVars>>

\* lines 60-68: one iteration of the fuzzy-prefix loop
FuzzyProbe ==
  /\ pc = "fuzzy"
  /\ fuzzy_continues(base, size, max_item_index)
  /\ probes' = Append(probes, base)
  /\ \E base_value \in item_at_unchecked(list, base) :
       IF ~fuzzy_matches(base_value, query)
       THEN /\ pc' = "sort"
            /\ UNCHANGED <<base, result_with_dist>>
       ELSE /\ result_with_dist' = Append(result_with_dist, scored(base_value, query, base))
            /\ base' = base + 1
            /\ pc' = pc
  /\ UNCHANGED <<list, query, max_items, size, max_item_index, result>>
  /\ UNCHANGED <<packVars, swVars, normVars>>

FuzzyEnd ==
  /\ pc = "fuzzy"
  /\ ~fuzzy_continues(base, size, max_item_index)
  /\ pc' = "sort"
  /\ UNCHANGED <<list, query, max_items, size, base, max_item_index,
                 result_with_dist, result, probes>>
  /\ UNCHANGED <<packVars, swVars, normVars>>

\* lines 69-70: sort by distance, keep the first max_items (result_with_dist
\* is kept as the record of the candidates that were scored)
SortAndTake ==
  /\ pc = "sort"
  /\ result' = take_items(sort_by_dist(result_with_dist), max_items)
  /\ pc' = "done"
  /\ UNCHANGED <<list, query, max_items, size, base, max_item_index,
                 result_with_dist, probes>>
  /\ UNCHANGED <<packVars, swVars, normVars>>

SearchNext ==
  \/ SearchStart
  \/ BinarySearchProbe
  \/ BinarySearchEnd
  \/ ExactProbe
  \/ ExactEnd
  \/ FuzzyProbe
  \/ FuzzyEnd
  \/ SortAndTake

(***************************************************************************)
(* Text normalizer: phonehash_elements (phonemes.rs:170-250).  The input is *)
(* ASCII, on which the transliteration of line 173-174 is the identity.     *)
(***************************************************************************)
UpperLetters == <<"A", "B", "C", "D", "E", "F", "G", "H", "I", "J", "K", "L", "M",
                  "N", "O", "P", "Q", "R", "S", "T", "U", "V", "W", "X", "Y", "Z">>

LowerLetters == <<"a", "b", "c", "d", "e", "f", "g", "h", "i", "j", "k", "l", "m",
                  "n", "o", "p", "q", "r", "s", "t", "u", "v", "w", "x", "y", "z">>

IndexOf(s, c) == CHOOSE k \in 1..Len(s) : s[k] = c

IsIn(s, c) == \E k \in 1..Len(s) : s[k] = c

\* (c as u8).to_ascii_lowercase()
to_ascii_lowercase(c) ==
  IF IsIn(UpperLetters, c) THEN LowerLetters[IndexOf(UpperLetters, c)] ELSE c

\* the flat_map of lines 176-196: digits and $ % & + are spelled out
expand(c) ==
  CASE c = "0" -> <<" ", "z", "e", "r", "o", " ">>
    [] c = "1" -> <<" ", "o", "n", "e", " ">>
    [] c = "2" -> <<" ", "t", "w", "o", " ">>
    [] c = "3" -> <<" ", "t", "h", "r", "e", "e", " ">>
    [] c = "4" -> <<" ", "f", "o", "u", "r", " ">>
    [] c = "5" -> <<" ", "f", "i", "v", "e", " ">>
    [] c = "6" -> <<" ", "s", "i", "x", " ">>
    [] c = "7" -> <<" ", "s", "e", "v", "e", "n", " ">>
    [] c = "8" -> <<" ", "e", "i", "g", "h", "t", " ">>
    [] c = "9" -> <<" ", "n", "i", "n", "e", " ">>
    [] c = "$" -> <<" ", "d", "o", "l", "l", "a", "r", " ">>
    [] c = "%" -> <<" ", "p", "e", "r", "c", "e", "n", "t", " ">>
    [] c = "&" -> <<" ", "a", "n", "d", " ">>
    [] c = "+" -> <<" ", "p", "l", "u", "s", " ">>
    [] OTHER -> IF IsIn(LowerLetters, c) THEN <<c>> ELSE <<" ">>

RECURSIVE normalize_bytes(_)
\* lines 172-197: lower-case every byte, then expand it
normalize_bytes(str) ==
  IF str = <<>> THEN <<>>
  ELSE expand(to_ascii_lowercase(Head(str))) \o normalize_bytes(Tail(str))

\* the filter_map of lines 239-249; 'h' gives None
char_class(c) ==
  CASE c = " " -> "Space"
    [] c \in {"a", "e", "i", "o", "u", "y"} -> "A"
    [] c \in {"b", "d", "t", "p"} -> "B"
    [] c \in {"f", "v"} -> "F"
    [] c \in {"c", "s", "x", "k", "q", "z"} -> "S"
    [] c \in {"g", "j"} -> "G"
    [] c \in {"m", "n"} -> "M"
    [] c \in {"l", "r", "w"} -> "W"
    [] OTHER -> "None"

\* ascii_alphas.peek_nth(n) before next() has been called: None is "None"
byte_at(k) == IF k <= Len(ascii_alphas) THEN ascii_alphas[k] ELSE "None"

\* the closure yields byte c read at stream index k: the final filter_map
yield(c, k) ==
  IF char_class(c) = "None" THEN elements
  ELSE Append(elements, [elem |-> char_class(c), src |-> k])

\* the silent-k arm without the word-start flag
silent_k_matches_any(flag, c, p0) == c = "k" /\ p0 = "n"

\* (true, Some(b'k'), Some(b'n'), _): the silent leading k
silent_k_matches(flag, c, p0) == flag /\ c = "k" /\ p0 = "n"

\* (_, Some(b' '), Some(b'k'), Some(b'n')): the flag is re-armed
rearm_matches(c, p0, p1) == c = " " /\ p0 = "k" /\ p1 = "n"

\* bytes of the normalized inputs
NormChars == {"k", "n", " ", "-", "1", "g", "h", "p"}

NormIdle ==
  /\ input = <<>>
  /\ ascii_alphas = <<>>
  /\ cursor = 1
  /\ check_silent_first_letter = FALSE
  /\ elements = <<>>
  /\ npc = "idle"

NormInit ==
  /\ input \in SeqsUpTo(NormChars, MaxInputLen)
  /\ ascii_alphas = normalize_bytes(input)
  /\ cursor = 1
  /\ check_silent_first_letter = TRUE
  /\ elements = <<>>
  /\ npc = "loop"

\* (_, None, _, _) => break None
NormEnd ==
  /\ npc = "loop"
  /\ byte_at(cursor) = "None"
  /\ check_silent_first_letter' = FALSE
  /\ npc' = "done"
  /\ UNCHANGED <<input, ascii_alphas, cursor, elements>>
  /\ UNCHANGED <<packVars, swVars, searchVars>>

\* (_, Some(b'p'), Some(b'h'), _): ph is pronounced as f
NormPh ==
  /\ npc = "loop"
  /\ byte_at(cursor) = "p" /\ byte_at(cursor + 1) = "h"
  /\ check_silent_first_letter' = FALSE
  /\ cursor' = cursor + 2
  /\ elements' = yield("f", cursor)
  /\ UNCHANGED <<input, ascii_alphas, npc>>
  /\ UNCHANGED <<packVars, swVars, searchVars>>

\* (_, Some(b' '), Some(b' '), _): remove consecutive spaces
NormSkipSpace ==
  /\ npc = "loop"
  /\ byte_at(cursor) = " " /\ byte_at(cursor + 1) = " "
  /\ check_silent_first_letter' = FALSE
  /\ cursor' = cursor + 1
  /\ UNCHANGED <<input, ascii_alphas, elements, npc>>
  /\ UNCHANGED <<packVars, swVars, searchVars>>

\* (_, Some(b'g'), Some(b'h'), _): gh is silent
NormGh ==
  /\ npc = "loop"
  /\ byte_at(cursor) = "g" /\ byte_at(cursor + 1) = "h"
  /\ check_silent_first_letter' = FALSE
  /\ cursor' = cursor + 2
  /\ UNCHANGED <<input, ascii_alphas, elements, npc>>
  /\ UNCHANGED <<packVars, swVars, searchVars>>

\* (true, Some(b'k'), Some(b'n'), _) => break ascii_alphas.next()
NormSilentK ==
  /\ npc = "loop"
  /\ silent_k_matches(check_silent_first_letter, byte_at(cursor), byte_at(cursor + 1))
  /\ check_silent_first_letter' = FALSE
  /\ cursor' = cursor + 2
  /\ elements' = yield(byte_at(cursor + 1), cursor + 1)
  /\ UNCHANGED <<input, ascii_alphas, npc>>
  /\ UNCHANGED <<packVars, swVars, searchVars>>

\* (_, Some(b' '), Some(b'k'), Some(b'n')): a knight is approaching
NormSpaceBeforeKn ==
  /\ npc = "loop"
  /\ rearm_matches(byte_at(cursor), byte_at(cursor + 1), byte_at(cursor + 2))
  /\ check_silent_first_letter' = TRUE
  /\ cursor' = cursor + 1
  /\ elements' = yield(" ", cursor)
  /\ UNCHANGED <<input, ascii_alphas, npc>>
  /\ UNCHANGED <<packVars, swVars, searchVars>>

\* (_, Some(c), _, _) => break Some(c): no earlier arm matched
NormOther ==
  /\ npc = "loop"
  /\ byte_at(cursor) # "None"
  /\ ~(byte_at(cursor) = "p" /\ byte_at(cursor + 1) = "h")
  /\ ~(byte_at(cursor) = " " /\ byte_at(cursor + 1) = " ")
  /\ ~(byte_at(cursor) = "g" /\ byte_at(cursor + 1) = "h")
  /\ ~silent_k_matches(check_silent_first_letter, byte_at(cursor), byte_at(cursor + 1))
  /\ ~rearm_matches(byte_at(cursor), byte_at(cursor + 1), byte_at(cursor + 2))
  /\ check_silent_first_letter' = FALSE
  /\ cursor' = cursor + 1
  /\ elements' = yield(byte_at(cursor), cursor)
  /\ UNCHANGED <<input, ascii_alphas, npc>>
  /\ UNCHANGED <<packVars, swVars, searchVars>>

NormNext ==
  \/ NormEnd
  \/ NormPh
  \/ NormSkipSpace
  \/ NormGh
  \/ NormSilentK
  \/ NormSpaceBeforeKn
  \/ NormOther

InitPack == PackInit /\ SwIdle /\ SearchIdle /\ NormIdle

InitStartsWith == SwInit /\ PackIdle /\ SearchIdle /\ NormIdle

InitSearch == SearchInit /\ PackIdle /\ SwIdle /\ NormIdle

InitNorm == NormInit /\ PackIdle /\ SwIdle /\ SearchIdle

SpecPack == InitPack /\ [][PackNext]_vars

SpecStartsWith == InitStartsWith /\ [][SwNext]_vars

SpecSearch == InitSearch /\ [][SearchNext]_vars

SpecNorm == InitNorm /\ [][NormNext]_vars

(***************************************************************************)
(* Claims about the packer.                                                 *)
(***************************************************************************)
\* C5: the value built by from_iter is blank or finalized: its top 3 bits are
\* non-zero iff at least one phoneme was stored, its stray low-order bits are
\* zero, and no non-zero value failing the top-3-bit test is produced.
C5_BlankOrFinalized ==
  ppc = "done" =>
    /\ IsZero(repr) \/ is_finalized(repr)
    /\ is_finalized(repr) <=> remaining_max < max_phonemes(bits)
    /\ is_finalized(repr) <=> Storable(iter) # <<>>
    /\ \A i \in (bits - stray_bits(bits) + 1)..bits : repr[i] = 0

\* a finalized value that fills every slot, with leftover input
C5_Witness ==
  /\ ppc = "done"
  /\ is_finalized(repr)
  /\ remaining_max = 0
  /\ pos <= Len(iter)
  /\ bits = 16

\* C7: from_iter yields the first floor(W/3) classes of the stream with Space
\* and A deleted and consecutive equal classes collapsed, later slots zero;
\* and while capacity is left the accumulator is never finalized, so the
\* append-time is_finalized guard rejects nothing.
C7_PackedIsCollapsedPrefix ==
  /\ ppc = "done" =>
       repr = Encode(bits, Take(Collapse(Storable(iter)), max_phonemes(bits)))
  /\ ppc = "loop" => remaining_max > 0 /\ ~is_finalized(repr)

\* a repeat collapsed across a deleted vowel or space
C7_Witness ==
  /\ ppc = "done"
  /\ \E i \in 1..(Len(iter) - 2) :
       /\ IsStorable(iter[i])
       /\ ~IsStorable(iter[i + 1])
       /\ iter[i + 2] = iter[i]
  /\ StoredSeq(repr) # <<>>

\* C6: a.starts_with(b) is true exactly when a's stored phoneme sequence
\* begins with b's stored phoneme sequence.
C6_StartsWithIsPrefix ==
  sw_pc = "done" =>
    (sw_result <=> IsPrefix(StoredSeq(sw_other), StoredSeq(sw_self)))

\* a proper, non-blank prefix at a width above 8 bits
C6_Witness ==
  /\ sw_pc = "done"
  /\ sw_result
  /\ StoredSeq(sw_other) # <<>>
  /\ Len(StoredSeq(sw_self)) > Len(StoredSeq(sw_other))
  /\ Len(sw_self) = 64

(***************************************************************************)
(* Claims about the search.                                                 *)
(***************************************************************************)
IsSorted(l) ==
  \A i, j \in 1..Len(l) : i < j => Le(l[i].phoneme, l[j].phoneme)

DistOf(item) == damerau_levenshtein(item.str, query.str)

Max(a, b) == IF a < b THEN b ELSE a

\* C1: every index handed to item_at_unchecked is below len(): in the binary
\* search, in the exact-match loop and in the fuzzy-prefix loop, for every
\* collection (sorted or not), query and max_items.
C1_IndexInBounds ==
  \A k \in 1..Len(probes) : 0 <= probes[k] /\ probes[k] < Len(list)

\* an unsorted collection read up to its last index by the scan loops
C1_Witness ==
  /\ pc = "done"
  /\ ~IsSorted(list)
  /\ Len(result_with_dist) >= 2
  /\ probes[Len(probes)] = Len(list) - 1

\* C2: the result has at most max_items items, in non-decreasing distance to
\* the query text, equal distances in the order of their indices; max_items =
\* 0 or an empty collection gives an empty result.
C2_RankedAndCapped ==
  pc = "done" =>
    /\ Len(result) <= max_items
    /\ \A i, j \in 1..Len(result) :
         i < j => /\ DistOf(result[i].item) <= DistOf(result[j].item)
                  /\ DistOf(result[i].item) = DistOf(result[j].item)
                       => result[i].idx < result[j].idx
    /\ (max_items = 0 \/ list = <<>>) => result = <<>>

\* three results, reordered by the sort, two of them at the same distance
C2_Witness ==
  /\ pc = "done"
  /\ Len(result) >= 3
  /\ \E i, j \in 1..Len(result) : i < j /\ result[i].idx > result[j].idx
  /\ \E i, j \in 1..Len(result) :
       i < j /\ DistOf(result[i].item) = DistOf(result[j].item)

\* C3: every returned item is the collection's item at its index and its
\* fingerprint equals the query's or starts_with it; its stored phoneme
\* sequence begins with the query's.
C3_OnlyMatching ==
  pc = "done" =>
    \A k \in 1..Len(result) :
      /\ result[k].idx < Len(list)
      /\ list[result[k].idx + 1] = result[k].item
      /\ \/ result[k].item.phoneme = query.phoneme
         \/ starts_with(result[k].item.phoneme, query.phoneme)
      /\ IsPrefix(StoredSeq(query.phoneme), StoredSeq(result[k].item.phoneme))

\* more requested than returned: a fuzzy match is returned, a non-matching
\* item of the collection is not
C3_Witness ==
  /\ pc = "done"
  /\ Len(result) >= 1
  /\ max_items > Len(result)
  /\ \E k \in 1..Len(result) : result[k].item.phoneme # query.phoneme
  /\ \E i \in 1..Len(list) : ~starts_with(list[i].phoneme, query.phoneme)

\* C4: on a sorted collection every item whose fingerprint equals the query's
\* is a candidate whatever max_items is, and one left out of the result has a
\* distance no smaller than that of every returned item.
C4_ExactMatchesAllCandidates ==
  (pc = "done" /\ IsSorted(list)) =>
    \A i \in 1..Len(list) :
      list[i].phoneme = query.phoneme =>
        /\ \E c \in 1..Len(result_with_dist) : result_with_dist[c].idx = i - 1
        /\ (\A r \in 1..Len(result) : result[r].idx # i - 1)
             => \A r \in 1..Len(result) : DistOf(result[r].item) <= DistOf(list[i])

\* more exact matches than max_items: all scored, the result capped
C4_Witness ==
  /\ pc = "done"
  /\ IsSorted(list)
  /\ max_items >= 1
  /\ Len(result) = max_items
  /\ Cardinality({i \in 1..Len(list) : list[i].phoneme = query.phoneme}) > max_items
  /\ \E r \in 1..Len(result) : result[r].idx >= max_items

\* C8 as stated: the number of candidates scored is bounded by max_items alone
C8_ScoredWithinMaxItems ==
  pc = "done" => Len(result_with_dist) <= max_items

\* C8 as amended: the number of candidates scored is at most the larger of
\* max_items and the number of items whose fingerprint equals the query's.
C8_ScoredWithinMaxItemsOrExactRun ==
  Len(result_with_dist)
    <= Max(max_items,
           Cardinality({i \in 1..Len(list) : list[i].phoneme = query.phoneme}))

\* an exact-match run that exceeds a non-zero max_items by two or more
C8_Witness ==
  /\ pc = "done"
  /\ max_items >= 1
  /\ Len(result_with_dist) > max_items + 1
  /\ Len(result) = max_items

\* C9: no call fails, and the fuzzy limit is min(base + max_items, len)
\* computed without overflow or wrap-around, for every max_items of the word.
C9_NoOverflow ==
  /\ pc # "panic"
  /\ (pc = "exact" /\ result_with_dist = <<>>)
       => max_item_index = Min(base + max_items, Len(list))

(***************************************************************************)
(* Claims about the normalizer.                                             *)
(***************************************************************************)
\* some class was emitted from stream index k
EmittedFrom(k) == \E e \in 1..Len(elements) : elements[e].src = k

\* C10: a consumed 'k' followed by 'n' emits nothing (and the 'n' is kept, as
\* M) exactly when it is the first byte or follows a space; otherwise it is
\* kept as S.  The flag is set exactly at the start and after a space that
\* precedes "kn", and is clear after every other consumed byte.
C10_SilentLeadingK ==
  /\ \A i \in 1..(cursor - 1) :
       (ascii_alphas[i] = "k" /\ byte_at(i + 1) = "n") =>
         IF i = 1 \/ ascii_alphas[i - 1] = " "
         THEN /\ ~EmittedFrom(i)
              /\ \E e \in 1..Len(elements) :
                   elements[e] = [elem |-> "M", src |-> i + 1]
         ELSE \E e \in 1..Len(elements) : elements[e] = [elem |-> "S", src |-> i]
  /\ npc = "loop" =>
       (check_silent_first_letter <=>
          \/ cursor = 1
          \/ /\ cursor > 1
             /\ ascii_alphas[cursor - 1] = " "
             /\ byte_at(cursor) = "k"
             /\ byte_at(cursor + 1) = "n")
  /\ npc = "done" => ~check_silent_first_letter

\* a digit's expansion ends in the space that silences the k after it
C10_Witness ==
  /\ npc = "done"
  /\ Len(input) >= 3
  /\ input[1] = "1" /\ input[2] = "k" /\ input[3] = "n"
  /\ ascii_alphas[6] = "k"
  /\ ~EmittedFrom(6)
  /\ EmittedFrom(7)

====
